---------------------------- MODULE Spec2Model ----------------------------
(***************************************************************************)
(* Model of the dayblazer calendar: the calendar manager (date utilities   *)
(* and createCalendarGrid), the CalendarDay class and the CalendarEvent    *)
(* class.                                                                  *)
(*                                                                         *)
(* Strings are sequences of one-character strings, so that formatting,    *)
(* trimming, slicing and parsing are computed and not assumed.  Dates are  *)
(* records [year, month, day] with the month 0-based, as in a JS Date.     *)
(***************************************************************************)
EXTENDS Integers, Sequences, FiniteSets, TLC

VARIABLES
    selectedDate,     \* createCalendarGrid: the reference date
    now,              \* the wall-clock date read by `new Date()`
    gridItemAmount,   \* createCalendarGrid: the requested amount of grid items
    container,        \* container.children: the sequence of day divs
    gridCall,         \* which grid operation built the container, "none" before
    heap,             \* the CalendarEvent objects, by reference
    globalEventList,  \* the shared collection: a sequence of references
    dayList,          \* the constructed CalendarDays: date key -> eventList
    calls,            \* how many createEventList and updateEventInfo calls were made
    lastOp            \* the last operation on the event model or the last call of
                      \* a date utility, its arguments and the value it returned

vars == <<selectedDate, now, gridItemAmount, container, gridCall,
          heap, globalEventList, dayList, calls, lastOp>>

gridVars == <<selectedDate, now, gridItemAmount, container, gridCall>>
eventVars == <<heap, globalEventList, dayList, calls, lastOp>>

---------------------------------------------------------------------------
(* Bounds *)

\* The reference date and the wall clock range over YearSpan years from 2023
\* (2023 is a common year, 2024 a leap year).
YearSpan == 2

\* The raw data handed to createEventList holds at most MaxEvents records.
MaxEvents == 3

\* A run of the event state machine makes at most MaxCalls calls that change
\* events: rebuilds of the shared collection and in-place updates together.
MaxCalls == 3

Years == 2023..(2023 + YearSpan - 1)

---------------------------------------------------------------------------
(* Strings *)

Digit(n) ==
    <<"0", "1", "2", "3", "4", "5", "6", "7", "8", "9">>[n + 1]

\* Number.prototype.toString of a non-negative integer.
RECURSIVE NumToString(_)
NumToString(n) ==
    IF n < 10 THEN <<Digit(n)>> ELSE NumToString(n \div 10) \o <<Digit(n % 10)>>

---------------------------------------------------------------------------
(* Date arithmetic of the JS Date object *)

IsLeapYear(y) == (y % 4 = 0 /\ y % 100 # 0) \/ y % 400 = 0

\* Days of month m (0-based) of year y.
MonthLength(y, m) ==
    IF m = 1 THEN (IF IsLeapYear(y) THEN 29 ELSE 28)
    ELSE IF m \in {3, 5, 8, 10} THEN 30 ELSE 31

\* new Date(year, month, day) and Date.prototype.setMonth: a month outside 0..11
\* carries into the year, then a day past the end of the month carries into the
\* next month (day 0 is the last day of the month before).
MakeDate(y, m, d) ==
    LET yy == y + ((m - (m % 12)) \div 12)
        mm == m % 12
    IN  IF d = 0
        THEN LET py == IF mm = 0 THEN yy - 1 ELSE yy
                 pm == IF mm = 0 THEN 11 ELSE mm - 1
             IN  [year |-> py, month |-> pm, day |-> MonthLength(py, pm)]
        ELSE IF d > MonthLength(yy, mm)
        THEN [year  |-> IF mm = 11 THEN yy + 1 ELSE yy,
              month |-> IF mm = 11 THEN 0 ELSE mm + 1,
              day   |-> d - MonthLength(yy, mm)]
        ELSE [year |-> yy, month |-> mm, day |-> d]

\* date.setMonth(m): the date's year and day are kept.
SetMonth(date, m) == MakeDate(date.year, m, date.day)

\* The weekday abbreviation that starts Date.prototype.toString (Zeller's
\* congruence for the Gregorian calendar).
WeekdayAbbrev(date) ==
    LET m == IF date.month < 2 THEN date.month + 13 ELSE date.month + 1
        y == IF date.month < 2 THEN date.year - 1 ELSE date.year
        K == y % 100
        J == y \div 100
        h == (date.day + ((13 * (m + 1)) \div 5) + K + (K \div 4) + (J \div 4) + 5 * J) % 7
    IN  <<"Sat", "Sun", "Mon", "Tue", "Wed", "Thu", "Fri">>[h + 1]

---------------------------------------------------------------------------
(* Calendar manager: date utilities *)

getDaysInMonth(date) == MakeDate(date.year, date.month + 1, 0).day

\* The switch on the weekday abbreviation.
WeekDaySwitch(firstDayDateSlice) ==
    CASE firstDayDateSlice = "Mon" -> [weekday |-> "Monday", index |-> 0]
      [] firstDayDateSlice = "Tue" -> [weekday |-> "Tuesday", index |-> 1]
      [] firstDayDateSlice = "Wed" -> [weekday |-> "Wednesday", index |-> 2]
      [] firstDayDateSlice = "Thu" -> [weekday |-> "Thursday", index |-> 3]
      [] firstDayDateSlice = "Fri" -> [weekday |-> "Friday", index |-> 4]
      [] firstDayDateSlice = "Sat" -> [weekday |-> "Saturday", index |-> 5]
      [] firstDayDateSlice = "Sun" -> [weekday |-> "Sunday", index |-> 6]
      [] OTHER -> [weekDay |-> "UNDEFINED", index |-> 0]

\* An Invalid Date (new Date(NaN)): its getters return NaN, written -1 here.
InvalidDate == [year |-> -1, month |-> -1, day |-> -1]

\* firstDayDate.toString().split(" ")[0]: the weekday abbreviation, and "Invalid"
\* of "Invalid Date" when the date built from NaN getters is invalid.
firstDayDateSlice(date) ==
    IF date = InvalidDate THEN "Invalid"
    ELSE WeekdayAbbrev(MakeDate(date.year, date.month, 1))

getFirstWeekDayInMonth(date) == WeekDaySwitch(firstDayDateSlice(date))

\* A single-digit day or month gets a "0" prepended.
Pad(n) == IF Len(NumToString(n)) = 1 THEN <<"0">> \o NumToString(n) ELSE NumToString(n)

getDateString(day, month, year) ==
    Pad(day) \o <<"-">> \o Pad(month) \o <<"-">> \o NumToString(year)

---------------------------------------------------------------------------
(* Calendar manager: createCalendarGrid *)

\* createDayDiv plus the dataset.date the caller sets: one child of the container.
createDayDiv(type, day, dateString) ==
    [type |-> type, day |-> day, date |-> dateString, today |-> FALSE]

\* const previousMonth = new Date(); previousMonth.setMonth(selectedDate.getMonth() - 1)
previousMonth(sel, clock) == SetMonth(clock, sel.month - 1)

\* The free identifier daysInCurrentMonth of createCalendarGrid: declared by no
\* source file at hand; the days of the reference month.
daysInCurrentMonth(sel) == getDaysInMonth(sel)

\* The free identifier nextMonth of createCalendarGrid: declared by no source file
\* at hand; a date in the month after the reference month.
nextMonth(sel) == MakeDate(sel.year, sel.month + 1, 1)

\* remainder: the day numbers of previousMonth, sliced to the last firstDay.index.
remainder(sel, clock) ==
    LET daysInPreviousMonth == getDaysInMonth(previousMonth(sel, clock))
        all == [c \in 1..daysInPreviousMonth |-> c]
        firstDay == getFirstWeekDayInMonth(sel)
        start == IF Len(all) - firstDay.index > 0 THEN Len(all) - firstDay.index ELSE 0
    IN  SubSeq(all, start + 1, Len(all))

\* The first loop: the "previous" divs.
previousDivs(sel, clock) ==
    LET firstDay == getFirstWeekDayInMonth(sel)
        pm == previousMonth(sel, clock)
    IN  [i \in 1..firstDay.index |->
            createDayDiv("previous", remainder(sel, clock)[i],
                         getDateString(remainder(sel, clock)[i], pm.month + 1, pm.year))]

\* Mutant of currentDivs: the loop counter used as the day number without its + 1.
currentDivs_zeroBased(sel) ==
    [i \in 1..daysInCurrentMonth(sel) |->
        createDayDiv("current", i - 1, getDateString(i - 1, sel.month + 1, sel.year))]

\* The second loop: the "current" divs.
currentDivs(sel) ==
    [i \in 1..daysInCurrentMonth(sel) |->
        createDayDiv("current", i, getDateString(i, sel.month + 1, sel.year))]

\* The third loop: daysRemaining "next" divs.
nextDivs(sel, daysRemaining) ==
    [i \in 1..daysRemaining |->
        createDayDiv("next", i,
                     getDateString(i, nextMonth(sel).month + 1, nextMonth(sel).year))]

\* Mutant of todayPosition: the index computed without its - 1.
todayPosition_offByOne(sel) == (sel.day + getFirstWeekDayInMonth(sel).index) + 1

\* The 1-based position of container.children[selectedDate.getDate() + firstDay.index - 1].
todayPosition(sel) == (sel.day + getFirstWeekDayInMonth(sel).index - 1) + 1

\* The children of the container after createCalendarGrid(sel, container, amount),
\* `children` being its children before and `clock` the wall-clock date.
createCalendarGrid(sel, clock, children, amount) ==
    LET afterCurrent == children \o previousDivs(sel, clock) \o currentDivs(sel)
        daysRemaining == amount - Len(afterCurrent)
        all == afterCurrent \o nextDivs(sel, daysRemaining)
    IN  [all EXCEPT ![todayPosition(sel)].today = TRUE]

\* Mutant of maxGridItems: the threshold one too high, so that only a month
\* starting on a Sunday gets the sixth row.
maxGridItems_sundayOnly(sel) ==
    IF getFirstWeekDayInMonth(sel).index >= 6 THEN 42 ELSE 35

\* initCalendar's choice of maxGridItems.
maxGridItems(sel) ==
    IF getFirstWeekDayInMonth(sel).index >= 5 THEN 42 ELSE 35

---------------------------------------------------------------------------
(* The grid state machine *)

Dates == {d \in [year : Years, month : 0..11, day : 1..31] :
             d.day <= MonthLength(d.year, d.month)}

InitGridIdle ==
    /\ selectedDate = [year |-> 2023, month |-> 0, day |-> 1]
    /\ now = [year |-> 2023, month |-> 0, day |-> 1]
    /\ gridItemAmount = 0
    /\ container = <<>>
    /\ gridCall = "none"

InitEventsIdle ==
    /\ heap = <<>>
    /\ globalEventList = <<>>
    /\ dayList = <<>>
    /\ calls = [createEventList |-> 0, updateEventInfo |-> 0]
    /\ lastOp = [op |-> "none"]

\* Wall-clock dates.  setMonth overwrites the clock's month, so only its year and
\* whether its day exists in the target month matter: the first and the last day
\* of a 31-day, a 30-day and a 28/29-day month of every year cover both.
ClockDates == {d \in Dates : d.month \in {0, 1, 3}
                             /\ d.day \in {1, MonthLength(d.year, d.month)}}

InitGrid ==
    /\ selectedDate \in Dates
    /\ now \in ClockDates
    /\ gridItemAmount = 0
    /\ container = <<>>
    /\ gridCall = "none"
    /\ InitEventsIdle

\* A direct call createCalendarGrid(selectedDate, container, amount) on the empty
\* container.
CallCreateCalendarGrid ==
    /\ gridCall = "none"
    /\ \E amount \in {35, 42} :
          /\ gridItemAmount' = amount
          /\ container' = createCalendarGrid(selectedDate, now, container, amount)
    /\ gridCall' = "createCalendarGrid"
    /\ UNCHANGED <<selectedDate, now, eventVars>>

\* initCalendar(selectedDate, container, dayList): the grid it builds.
CallInitCalendar ==
    /\ gridCall = "none"
    /\ gridItemAmount' = maxGridItems(selectedDate)
    /\ container' = createCalendarGrid(selectedDate, now, container,
                                       maxGridItems(selectedDate))
    /\ gridCall' = "initCalendar"
    /\ UNCHANGED <<selectedDate, now, eventVars>>

NextGrid == CallCreateCalendarGrid \/ CallInitCalendar

SpecGrid == InitGrid /\ [][NextGrid]_vars

---------------------------------------------------------------------------
(* getFirstWeekDayInMonth on its own *)

\* The argument is any date of the years at hand or an Invalid Date.
InitWeekday ==
    /\ selectedDate \in Dates \cup {InvalidDate}
    /\ now = [year |-> 2023, month |-> 0, day |-> 1]
    /\ gridItemAmount = 0
    /\ container = <<>>
    /\ gridCall = "none"
    /\ InitEventsIdle

\* getFirstWeekDayInMonth(selectedDate): the returned object is recorded.
CallGetFirstWeekDayInMonth ==
    /\ lastOp.op = "none"
    /\ lastOp' = [op |-> "getFirstWeekDayInMonth",
                  returned |-> getFirstWeekDayInMonth(selectedDate)]
    /\ UNCHANGED <<gridVars, heap, globalEventList, dayList, calls>>

NextWeekday == CallGetFirstWeekDayInMonth

SpecWeekday == InitWeekday /\ [][NextWeekday]_vars

\* C11: when the weekday abbreviation matches none of Mon..Sun,
\* getFirstWeekDayInMonth returns a record of the shape of the seven normal
\* cases, with "UNDEFINED" in its weekday field and index 0.  Checked under
\* SpecWeekday.
C11_UndefinedSentinel ==
    (/\ lastOp.op = "getFirstWeekDayInMonth"
     /\ firstDayDateSlice(selectedDate)
            \notin {"Mon", "Tue", "Wed", "Thu", "Fri", "Sat", "Sun"})
    => /\ DOMAIN lastOp.returned = {"weekday", "index"}
       /\ lastOp.returned.weekday = "UNDEFINED"
       /\ lastOp.returned.index = 0

---------------------------------------------------------------------------
(* Claims about createCalendarGrid, checked under SpecGrid *)

Built == gridCall # "none"

firstWeekdayIndex == getFirstWeekDayInMonth(selectedDate).index

\* The positions of the container whose div carries the "today" class.
TodayPositions == {i \in 1..Len(container) : container[i].today}

\* The first day of the calendar month before, and after, the reference month.
MonthBefore ==
    IF selectedDate.month = 0
    THEN [year |-> selectedDate.year - 1, month |-> 11]
    ELSE [year |-> selectedDate.year, month |-> selectedDate.month - 1]

MonthAfter ==
    IF selectedDate.month = 11
    THEN [year |-> selectedDate.year + 1, month |-> 0]
    ELSE [year |-> selectedDate.year, month |-> selectedDate.month + 1]

IsPrevious(div) == div.type = "previous"

\* C1: createCalendarGrid on an empty container produces exactly gridItemAmount
\* divs, for every reference date and every amount in {35, 42}.
C1_ExactlyGridItemAmount ==
    Built => Len(container) = gridItemAmount

\* C2: exactly one div carries "today"; it is the one at index
\* (day-of-month - 1) + firstWeekday.index, and its date key is
\* getDateString(day, month, year) of the reference date.
C2_OneTodayCell ==
    Built =>
        LET index == (selectedDate.day - 1) + firstWeekdayIndex
        IN  /\ TodayPositions = {index + 1}
            /\ container[index + 1].date =
                   getDateString(selectedDate.day, selectedDate.month + 1,
                                 selectedDate.year)

\* C2 witness: a direct call with 35 items for the 31st of a month that starts on
\* a Sunday: the marked div is the 37th.
C2_Witness ==
    /\ gridCall = "createCalendarGrid"
    /\ gridItemAmount = 35
    /\ selectedDate.day = 31
    /\ firstWeekdayIndex = 6
    /\ Len(container) >= 37
    /\ container[37].today

\* C3: whatever the wall clock, the "previous" divs are, in ascending order, the
\* last N days of the month before the reference month (N the first-weekday
\* index), each with the date key of that day in that month and its year.
C3_PreviousCells ==
    Built =>
        LET N == firstWeekdayIndex
            L == MonthLength(MonthBefore.year, MonthBefore.month)
            prev == SelectSeq(container, IsPrevious)
        IN  /\ Len(prev) = N
            /\ \A i \in 1..Len(prev) :
                  /\ prev[i].day = L - N + i
                  /\ prev[i].date =
                         getDateString(L - N + i, MonthBefore.month + 1, MonthBefore.year)

\* C4: the grid is the "previous" divs, then one "current" div per day
\* 1..getDaysInMonth(selectedDate) with the reference month's keys, then "next"
\* divs numbered 1, 2, 3, ... with the keys of the month after; tags never mix.
C4_GridOrder ==
    Built =>
        LET N == firstWeekdayIndex
            D == getDaysInMonth(selectedDate)
        IN  /\ Len(container) >= N + D
            /\ \A i \in 1..Len(container) :
                  IF i <= N THEN container[i].type = "previous"
                  ELSE IF i <= N + D
                  THEN /\ container[i].type = "current"
                       /\ container[i].day = i - N
                       /\ container[i].date =
                              getDateString(i - N, selectedDate.month + 1,
                                            selectedDate.year)
                  ELSE /\ container[i].type = "next"
                       /\ container[i].day = i - N - D
                       /\ container[i].date =
                              getDateString(i - N - D, MonthAfter.month + 1,
                                            MonthAfter.year)

\* C4 witness: a December grid with all three kinds of div; its "next" divs belong
\* to January of the following year.
C4_Witness ==
    /\ Built
    /\ selectedDate.month = 11
    /\ firstWeekdayIndex > 0
    /\ \E i \in 1..Len(container) : container[i].type = "next"

---------------------------------------------------------------------------
(* String operations used on event fields *)

IsSpace(c) == c = " "

IsDigit(c) == c \in {"0", "1", "2", "3", "4", "5", "6", "7", "8", "9"}

DigitValue(c) ==
    CASE c = "0" -> 0 [] c = "1" -> 1 [] c = "2" -> 2 [] c = "3" -> 3 [] c = "4" -> 4
      [] c = "5" -> 5 [] c = "6" -> 6 [] c = "7" -> 7 [] c = "8" -> 8 [] c = "9" -> 9

RECURSIVE TrimStart(_)
TrimStart(str) ==
    IF str # <<>> /\ IsSpace(Head(str)) THEN TrimStart(Tail(str)) ELSE str

RECURSIVE TrimEnd(_)
TrimEnd(str) ==
    IF str # <<>> /\ IsSpace(str[Len(str)])
    THEN TrimEnd(SubSeq(str, 1, Len(str) - 1))
    ELSE str

\* String.prototype.trim
Trim(str) == TrimEnd(TrimStart(str))

\* String.prototype.slice(0, 2)
Slice02(str) == SubSeq(str, 1, IF Len(str) < 2 THEN Len(str) ELSE 2)

\* The leading digits of a string.
RECURSIVE LeadingDigits(_)
LeadingDigits(str) ==
    IF str # <<>> /\ IsDigit(Head(str))
    THEN <<Head(str)>> \o LeadingDigits(Tail(str))
    ELSE <<>>

RECURSIVE DigitsValue(_)
DigitsValue(digits) ==
    IF digits = <<>> THEN 0
    ELSE 10 * DigitsValue(SubSeq(digits, 1, Len(digits) - 1))
         + DigitValue(digits[Len(digits)])

\* parseInt of a string without sign: leading white space is skipped, the digits
\* up to the first other character are read, and without a digit the result is NaN.
parseInt(str) ==
    LET digits == LeadingDigits(TrimStart(str))
    IN  IF digits = <<>> THEN [nan |-> TRUE, value |-> 0]
        ELSE [nan |-> FALSE, value |-> DigitsValue(digits)]

\* The < of two numbers: false when either is NaN.
NumLess(a, b) == ~a.nan /\ ~b.nan /\ a.value < b.value

---------------------------------------------------------------------------
(* CalendarEvent *)

\* constructor(eventData)
CalendarEvent(eventData) ==
    [id          |-> eventData.id,
     name        |-> eventData.name,
     description |-> eventData.description,
     date        |-> eventData.date,
     startTime   |-> eventData.startTime,
     endTime     |-> eventData.endTime,
     type        |-> eventData.type,
     difficulty  |-> eventData.difficulty,
     finished    |-> eventData.finished]

\* updateEventInfo(eventData): the object after the call.
updateEventInfo(this, eventData) ==
    [this EXCEPT !.name        = eventData.name,
                 !.description = eventData.description,
                 !.date        = eventData.date,
                 !.startTime   = eventData.startTime,
                 !.endTime     = eventData.endTime,
                 !.type        = eventData.type,
                 !.finished    = eventData.finished]

---------------------------------------------------------------------------
(* CalendarDay *)

\* Mutant of matchesDate: the dates compared as they are, without trim().
matchesDate_noTrim(obj, date) == obj.date = date

\* The filter callback of refreshEventList.
matchesDate(obj, date) == Trim(obj.date) = Trim(date)

\* Array.prototype.filter over a sequence of references: a new array.
RECURSIVE filter(_, _, _)
filter(list, objects, date) ==
    IF list = <<>> THEN <<>>
    ELSE (IF matchesDate(objects[Head(list)], date) THEN <<Head(list)>> ELSE <<>>)
         \o filter(Tail(list), objects, date)

\* The comparator of refreshEventList.
compareStartTime(a, b) ==
    LET timeA == parseInt(Slice02(a.startTime))
        timeB == parseInt(Slice02(b.startTime))
    IN  IF NumLess(timeA, timeB) THEN -1
        ELSE IF NumLess(timeB, timeA) THEN 1
        ELSE 0

\* One step of a stable sort: x goes behind every element that does not compare
\* greater than it.
RECURSIVE insertSorted(_, _, _)
insertSorted(sorted, x, objects) ==
    IF sorted = <<>> THEN <<x>>
    ELSE IF compareStartTime(objects[Head(sorted)], objects[x]) > 0
    THEN <<x>> \o sorted
    ELSE <<Head(sorted)>> \o insertSorted(Tail(sorted), x, objects)

\* Array.prototype.sort with the comparator (stable).
RECURSIVE sort(_, _)
sort(list, objects) ==
    IF list = <<>> THEN <<>>
    ELSE insertSorted(sort(SubSeq(list, 1, Len(list) - 1), objects),
                      list[Len(list)], objects)

\* Mutant of refreshEventList: the shared array is sorted in place before it is
\* filtered (globalEventList.sort(...).filter(...)).
refreshEventList_sortsShared(date, shared, objects) ==
    [eventList       |-> filter(sort(shared, objects), objects, date),
     globalEventList |-> sort(shared, objects)]

\* Mutant of refreshEventList: the matching events are stored unsorted.
refreshEventList_unsorted(date, shared, objects) ==
    [eventList       |-> filter(shared, objects, date),
     globalEventList |-> shared]

\* refreshEventList(): this.eventList and the shared array after the call.  The
\* sort is in place on the array filter returned, which is not the shared one.
refreshEventList(date, shared, objects) ==
    LET matchingEvents == filter(shared, objects, date)
        sortedEvents == sort(matchingEvents, objects)
    IN  [eventList       |-> sortedEvents,
         globalEventList |-> shared]

\* The XP of the switch on obj.difficulty.
difficultyXP(difficulty) ==
    CASE difficulty = 1 -> 150
      [] difficulty = 2 -> 400
      [] difficulty = 3 -> 750
      [] OTHER -> 0

\* Mutant of summaryStep: the reminder branch is missing, so a reminder falls
\* through to the XP switch.
summaryStep_noReminderBranch(acc, obj) ==
    IF obj.type = "event" THEN [acc EXCEPT !.totalEvents = @ + 1]
    ELSE LET counted == IF obj.type = "task"
                        THEN [acc EXCEPT !.totalTasks = @ + 1]
                        ELSE acc
             XP == difficultyXP(obj.difficulty)
             added == [counted EXCEPT !.totalXP = @ + XP]
         IN  IF obj.finished = TRUE
             THEN [added EXCEPT !.earnedXP = @ + XP, !.finishedTasks = @ + 1]
             ELSE added

\* One iteration of the loop of calculateSummary.
summaryStep(acc, obj) ==
    IF obj.type = "event" THEN [acc EXCEPT !.totalEvents = @ + 1]
    ELSE IF obj.type = "reminder" THEN acc
    ELSE LET counted == IF obj.type = "task"
                        THEN [acc EXCEPT !.totalTasks = @ + 1]
                        ELSE acc
             XP == difficultyXP(obj.difficulty)
             added == [counted EXCEPT !.totalXP = @ + XP]
         IN  IF obj.finished = TRUE
             THEN [added EXCEPT !.earnedXP = @ + XP, !.finishedTasks = @ + 1]
             ELSE added

RECURSIVE summaryLoop(_, _, _)
summaryLoop(acc, list, objects) ==
    IF list = <<>> THEN acc
    ELSE summaryLoop(summaryStep(acc, objects[Head(list)]), Tail(list), objects)

\* calculateSummary(): the returned object.
calculateSummary(eventList, objects) ==
    summaryLoop([earnedXP |-> 0, totalXP |-> 0, finishedTasks |-> 0,
                 totalTasks |-> 0, totalEvents |-> 0],
                eventList, objects)

---------------------------------------------------------------------------
(* The event state machine *)

\* The date keys of the CalendarDays that get constructed, as
\* createCalendarDayData forms them.
DayKeys == {getDateString(1, 1, 2024), getDateString(2, 1, 2024)}

\* Raw event records as the data source supplies them: tasks of every difficulty,
\* an event, a reminder, a type that is none of the three, a date with white
\* space around it, two pairs of start times within the same hour, and a start
\* time with a one-digit hour.
RawEvents ==
    { [id |-> 1, name |-> "report", description |-> "write it",
       date |-> getDateString(1, 1, 2024),
       startTime |-> <<"1", "4", ":", "3", "0">>, endTime |-> "15:00",
       type |-> "task", difficulty |-> 2, finished |-> TRUE],
      [id |-> 2, name |-> "gym", description |-> "legs",
       date |-> getDateString(1, 1, 2024),
       startTime |-> <<"0", "9", ":", "0", "0">>, endTime |-> "10:00",
       type |-> "task", difficulty |-> 3, finished |-> FALSE],
      [id |-> 3, name |-> "lunch", description |-> "with Sam",
       date |-> <<" ">> \o getDateString(1, 1, 2024) \o <<" ">>,
       startTime |-> <<"0", "9", ":", "3", "0">>, endTime |-> "11:00",
       type |-> "event", difficulty |-> 0, finished |-> FALSE],
      [id |-> 4, name |-> "call", description |-> "dentist",
       date |-> getDateString(2, 1, 2024),
       startTime |-> <<"9", ":", "1", "5">>, endTime |-> "9:30",
       type |-> "reminder", difficulty |-> 1, finished |-> TRUE],
      [id |-> 5, name |-> "idea", description |-> "untyped",
       date |-> getDateString(1, 1, 2024),
       startTime |-> <<"0", "7", ":", "0", "0">>, endTime |-> "08:00",
       type |-> "note", difficulty |-> 1, finished |-> TRUE],
      [id |-> 6, name |-> "taxes", description |-> "file them",
       date |-> getDateString(2, 1, 2024),
       startTime |-> <<"0", "9", ":", "4", "5">>, endTime |-> "12:00",
       type |-> "task", difficulty |-> 4, finished |-> TRUE] }

Range(list) == {list[i] : i \in DOMAIN list}

\* data.events: up to MaxEvents records with distinct ids.
RawData ==
    {data \in UNION {[1..n -> RawEvents] : n \in 0..MaxEvents} :
        \A i, j \in DOMAIN data : i # j => data[i].id # data[j].id}

\* The objects still referenced from the shared array or from a day's eventList.
Referenced(shared, days) ==
    Range(shared) \cup UNION {Range(days[d]) : d \in DOMAIN days}

\* The objects that survive: the referenced ones.
Collect(objects, shared, days) ==
    [r \in (DOMAIN objects) \cap Referenced(shared, days) |-> objects[r]]

\* n references in no use, in ascending order.
RECURSIVE FreshRefs(_, _)
FreshRefs(used, n) ==
    IF n = 0 THEN <<>>
    ELSE LET r == CHOOSE x \in 1..(Cardinality(used) + 1) : x \notin used
         IN  <<r>> \o FreshRefs(used \cup {r}, n - 1)

\* The event state machine rebuilds the shared collection from two tasks of the
\* same day, in either order, both, one or none of them ...
ScenarioEvents == {e \in RawEvents : e.id \in {1, 2}}

ScenarioData ==
    {data \in UNION {[1..n -> ScenarioEvents] : n \in 0..Cardinality(ScenarioEvents)} :
        \A i, j \in DOMAIN data : i # j => data[i].id # data[j].id}

\* ... and updates events with the data of a task of another difficulty and start
\* time, or of a reminder of the other day.
UpdateData == {e \in RawEvents : e.id \in {2, 4}}

Called == calls.createEventList + calls.updateEventInfo

\* The heap and the shared array that createEventList(data) builds from nothing.
Built0(data) ==
    [heap |-> [r \in DOMAIN data |-> CalendarEvent(data[r])],
     globalEventList |-> [r \in DOMAIN data |-> r]]

\* No grid call, an empty shared collection and no CalendarDay.
Init == InitGridIdle /\ InitEventsIdle

\* Mutant of CallCreateEventList: the rebuild also recomputes the eventList of
\* every constructed day (an automatic invalidation the code does not have).
CallCreateEventList_refreshesDays(data) ==
    LET refs == FreshRefs({}, Len(data))
        objects == [r \in Range(refs) |->
                       CalendarEvent(data[CHOOSE i \in DOMAIN refs : refs[i] = r])]
    IN  /\ Called < MaxCalls
        /\ calls' = [calls EXCEPT !.createEventList = @ + 1]
        /\ globalEventList' = refs
        /\ heap' = objects
        /\ dayList' = [d \in DOMAIN dayList |->
                          refreshEventList(d, refs, objects).eventList]
        /\ lastOp' = [op |-> "createEventList"]
        /\ UNCHANGED gridVars

\* globalEventList = createEventList(data): one new CalendarEvent per record, in
\* a new array; the objects of the array before stay only where a day holds them.
CallCreateEventList(data) ==
    LET kept == Collect(heap, <<>>, dayList)
        refs == FreshRefs(DOMAIN kept, Len(data))
    IN  /\ Called < MaxCalls
        /\ calls' = [calls EXCEPT !.createEventList = @ + 1]
        /\ globalEventList' = refs
        /\ heap' = [r \in (DOMAIN kept) \cup Range(refs) |->
                       IF r \in DOMAIN kept THEN kept[r]
                       ELSE CalendarEvent(data[CHOOSE i \in DOMAIN refs : refs[i] = r])]
        /\ lastOp' = [op |-> "createEventList"]
        /\ UNCHANGED <<dayList, gridVars>>

\* event.updateEventInfo(eventData) on an object the program still holds.
CallUpdateEventInfo(ref, eventData) ==
    /\ ref \in DOMAIN heap
    /\ Called < MaxCalls
    /\ calls' = [calls EXCEPT !.updateEventInfo = @ + 1]
    /\ heap' = [heap EXCEPT ![ref] = updateEventInfo(heap[ref], eventData)]
    /\ lastOp' = [op |-> "updateEventInfo", ref |-> ref, eventData |-> eventData,
                  idBefore |-> heap[ref].id]
    /\ UNCHANGED <<globalEventList, dayList, gridVars>>

\* new CalendarDay(dateString): the constructor stores the date and calls
\* refreshEventList.
NewCalendarDay(dateString) ==
    /\ dateString \notin DOMAIN dayList
    /\ LET after == refreshEventList(dateString, globalEventList, heap)
       IN  /\ dayList' = [d \in (DOMAIN dayList) \cup {dateString} |->
                             IF d = dateString THEN after.eventList ELSE dayList[d]]
           /\ globalEventList' = after.globalEventList
    /\ lastOp' = [op |-> "CalendarDay", day |-> dateString]
    /\ UNCHANGED <<heap, calls, gridVars>>

\* day.refreshEventList() on a constructed day.
CallRefreshEventList(day) ==
    /\ day \in DOMAIN dayList
    /\ LET after == refreshEventList(day, globalEventList, heap)
       IN  /\ dayList' = [dayList EXCEPT ![day] = after.eventList]
           /\ globalEventList' = after.globalEventList
           /\ heap' = Collect(heap, after.globalEventList,
                              [dayList EXCEPT ![day] = after.eventList])
    /\ lastOp' = [op |-> "refreshEventList", day |-> day]
    /\ UNCHANGED <<calls, gridVars>>

\* day.calculateSummary() on a constructed day.
CallCalculateSummary(day) ==
    /\ day \in DOMAIN dayList
    /\ lastOp' = [op |-> "calculateSummary", day |-> day,
                  returned |-> calculateSummary(dayList[day], heap)]
    /\ UNCHANGED <<heap, globalEventList, dayList, calls, gridVars>>

Next ==
    \/ \E data \in ScenarioData : CallCreateEventList(data)
    \/ \E ref \in DOMAIN heap, eventData \in UpdateData :
          CallUpdateEventInfo(ref, eventData)
    \/ \E dateString \in DayKeys : NewCalendarDay(dateString)
    \/ \E day \in DOMAIN dayList : CallRefreshEventList(day)
    \/ \E day \in DOMAIN dayList : CallCalculateSummary(day)

Spec == Init /\ [][Next]_vars

\* The day operations alone, on a shared collection built once from any raw data.
InitDay ==
    /\ InitGridIdle
    /\ \E data \in RawData :
          /\ heap = Built0(data).heap
          /\ globalEventList = Built0(data).globalEventList
    /\ dayList = <<>>
    /\ calls = [createEventList |-> 0, updateEventInfo |-> 0]
    /\ lastOp = [op |-> "createEventList"]

NextDay ==
    \/ \E dateString \in DayKeys : NewCalendarDay(dateString)
    \/ \E day \in DOMAIN dayList : CallRefreshEventList(day)
    \/ \E day \in DOMAIN dayList : CallCalculateSummary(day)

SpecDay == InitDay /\ [][NextDay]_vars

---------------------------------------------------------------------------
(* Claims about CalendarDay and CalendarEvent *)

Position(list, x) == CHOOSE i \in DOMAIN list : list[i] = x

\* The integer hour of an event's startTime.
Hour(ref) == parseInt(Slice02(heap[ref].startTime)).value

\* The events of the shared collection that belong to a day.
Matching(day) ==
    {r \in Range(globalEventList) : Trim(heap[r].date) = Trim(day)}

\* view holds exactly the matching events of the shared collection, each once,
\* in ascending order of the hour, equal hours in the collection's order.
IsViewOfCollection(view, day) ==
    /\ Range(view) = Matching(day)
    /\ Len(view) = Cardinality(Matching(day))
    /\ \A i, j \in DOMAIN view :
          i < j => /\ Hour(view[i]) <= Hour(view[j])
                   /\ Hour(view[i]) = Hour(view[j]) =>
                          Position(globalEventList, view[i])
                              < Position(globalEventList, view[j])

Ids(list) == [i \in DOMAIN list |-> heap[list[i]].id]

RefreshedDay ==
    IF lastOp.op \in {"refreshEventList", "CalendarDay"} THEN {lastOp.day} ELSE {}

\* C5: after refreshEventList the day's eventList holds exactly the events of
\* the shared collection whose trimmed date equals the day's trimmed date, each
\* once, ascending by the integer of the first two characters of startTime, equal
\* hours in their order in the collection.  Checked under SpecDay.
C5_RefreshFiltersAndSorts ==
    \A day \in RefreshedDay : IsViewOfCollection(dayList[day], day)

\* C5 witness: the collection lists ids 1 (14:30), 3 (09:30, date with spaces) and
\* 2 (09:00) in that order; the refreshed view of 01-01-2024 is 3, 2, 1.
C5_Witness ==
    /\ lastOp.op = "refreshEventList"
    /\ lastOp.day = getDateString(1, 1, 2024)
    /\ Ids(globalEventList) = <<1, 3, 2>>
    /\ Ids(dayList[lastOp.day]) = <<3, 2, 1>>

\* The XP table of the claim.
TableXP(difficulty) ==
    IF difficulty = 1 THEN 150
    ELSE IF difficulty = 2 THEN 400
    ELSE IF difficulty = 3 THEN 750
    ELSE 0

RECURSIVE SumXP(_, _)
SumXP(indices, view) ==
    IF indices = {} THEN 0
    ELSE LET i == CHOOSE x \in indices : TRUE
         IN  TableXP(heap[view[i]].difficulty) + SumXP(indices \ {i}, view)

\* The reference fold of the claim, stated by counting.
ReferenceSummary(view) ==
    LET tasks == {i \in DOMAIN view : heap[view[i]].type = "task"}
        done == {i \in tasks : heap[view[i]].finished = TRUE}
        events == {i \in DOMAIN view : heap[view[i]].type = "event"}
    IN  [earnedXP      |-> SumXP(done, view),
         totalXP       |-> SumXP(tasks, view),
         finishedTasks |-> Cardinality(done),
         totalTasks    |-> Cardinality(tasks),
         totalEvents   |-> Cardinality(events)]

C7_UpdateReplacesAllButId ==
    lastOp.op = "updateEventInfo" =>
        LET this == heap[lastOp.ref]
            newData == lastOp.eventData
        IN  /\ this.id = lastOp.idBefore
            /\ this.name = newData.name
            /\ this.description = newData.description
            /\ this.date = newData.date
            /\ this.startTime = newData.startTime
            /\ this.endTime = newData.endTime
            /\ this.type = newData.type
            /\ this.difficulty = newData.difficulty
            /\ this.finished = newData.finished

\* Every event of the day's eventList has the day's date (after trim) and the
\* list ascends by the hour of startTime.
ViewConsistent(day) ==
    /\ \A i \in DOMAIN dayList[day] : Trim(heap[dayList[day][i]].date) = Trim(day)
    /\ \A i, j \in DOMAIN dayList[day] :
          i < j => Hour(dayList[day][i]) <= Hour(dayList[day][j])

InSync(day) == IsViewOfCollection(dayList[day], day)

RefreshOf(day) == lastOp.op = "refreshEventList" /\ lastOp.day = day

\* C9 as claimed: a rebuild leaves every constructed day's eventList unchanged; a
\* day's eventList reflects the collection right after the day's own
\* refreshEventList, and only that call brings a view back in sync.
C9_OnlyRefreshSyncs ==
    [][\A day \in DOMAIN dayList :
          /\ lastOp'.op = "createEventList" =>
                /\ dayList'[day] = dayList[day]
                /\ \A r \in Range(dayList[day]) : heap'[r] = heap[r]
          /\ RefreshOf(day)' => InSync(day)'
          /\ (~InSync(day) /\ InSync(day)') => RefreshOf(day)']_vars

\* C9 as amended: a rebuild leaves every constructed day's eventList unchanged
\* (same objects, same order, same fields); right after a day's own
\* refreshEventList its eventList reflects the collection; and no other
\* operation replaces a day's eventList.
C9_OnlyRefreshReplacesView ==
    [][\A day \in DOMAIN dayList :
          /\ lastOp'.op = "createEventList" =>
                /\ dayList'[day] = dayList[day]
                /\ \A r \in Range(dayList[day]) : heap'[r] = heap[r]
          /\ RefreshOf(day)' => InSync(day)'
          /\ dayList'[day] # dayList[day] => RefreshOf(day)']_vars

\* C9 witness: a refresh has just replaced a stale, non-empty view by the events
\* of the rebuilt collection.
C9_Witness ==
    /\ lastOp.op = "refreshEventList"
    /\ calls.createEventList >= 2
    /\ dayList[lastOp.day] # <<>>
    /\ InSync(lastOp.day)

\* C10: constructing a CalendarDay, refreshEventList and calculateSummary leave
\* the shared collection unchanged (same events, same order, same fields), and
\* calculateSummary leaves the day's eventList unchanged too.
C10_DayOperationsOnlyRead ==
    [][lastOp'.op \in {"CalendarDay", "refreshEventList", "calculateSummary"} =>
          /\ globalEventList' = globalEventList
          /\ \A r \in Range(globalEventList) :
                r \in DOMAIN heap' /\ heap'[r] = heap[r]
          /\ lastOp'.op = "calculateSummary" =>
                /\ dayList' = dayList
                /\ \A r \in Range(dayList[lastOp'.day]) : heap'[r] = heap[r]]_vars

\* C10 witness: a day was refreshed from a collection that lists a later event
\* of the day before an earlier one, so the sort had to reorder.
C10_Witness ==
    /\ lastOp.op = "refreshEventList"
    /\ \E i, j \in DOMAIN globalEventList :
          /\ i < j
          /\ {globalEventList[i], globalEventList[j]} \subseteq Matching(lastOp.day)
          /\ Hour(globalEventList[i]) > Hour(globalEventList[j])

---------------------------------------------------------------------------
(* Claims about initCalendar's capacity and about the bounds of a summary *)

\* C12: the capacity initCalendar selects (42 when the first-weekday index is
\* >= 5, otherwise 35) is at least firstWeekday.index +
\* getDaysInMonth(selectedDate), so every day of the reference month and the
\* "today" div have a position inside the grid.  Checked under SpecGrid.
C12_CapacitySuffices ==
    gridCall = "initCalendar" =>
        /\ gridItemAmount =
               (IF firstWeekdayIndex >= 5 THEN 42 ELSE 35)
        /\ gridItemAmount >= firstWeekdayIndex + getDaysInMonth(selectedDate)
        /\ \A day \in 1..getDaysInMonth(selectedDate) :
              firstWeekdayIndex + day <= gridItemAmount
        /\ todayPosition(selectedDate) \in 1..gridItemAmount

\* C12 witness: the tight case, the 31st of a 31-day month that starts on a
\* Friday: 4 + 31 fill the 35 items exactly.
C12_Witness ==
    /\ gridCall = "initCalendar"
    /\ firstWeekdayIndex = 4
    /\ selectedDate.day = 31
    /\ gridItemAmount = 35
    /\ getDaysInMonth(selectedDate) = 31
    /\ todayPosition(selectedDate) = 35

\* C13: for every event view, also with types that are none of
\* task/event/reminder and difficulties outside 1..3, the summary has
\* finishedTasks <= totalTasks and earnedXP <= totalXP.  Checked under SpecDay.
C13_SummaryBounds ==
    lastOp.op = "calculateSummary" =>
        /\ lastOp.returned.finishedTasks <= lastOp.returned.totalTasks
        /\ lastOp.returned.earnedXP <= lastOp.returned.totalXP

====
